---- MODULE Spec2Model ----
(***************************************************************************)
(* The event-to-image pipeline of data-processing/generate_images.py       *)
(* (main, real_labeled, real_unlabeled, simulated) and the loader of       *)
(* utils/data.py (load_image_h5), as state machines.                       *)
(*                                                                         *)
(* Numbers.  Raw charges are integers.  A log-transformed charge is an     *)
(* integer number of thousandths (1699 stands for log10(50) = 1.699).  A   *)
(* normalized charge is an IEEE quotient: a record [k, n, d] that is the   *)
(* fraction n/d (k = "fin"), or "nan", "inf", "-inf".                      *)
(***************************************************************************)
EXTENDS Integers, Sequences, FiniteSets

VARIABLES
    pc,             \* position of the run
    via_cli,        \* TRUE when the entry point was reached through main
    mode,           \* the entry point: real_labeled, real_unlabeled, simulated
    projection,     \* the projection argument
    noise,          \* simulated's noise argument
    num_events,     \* simulated's num_events argument
    data,           \* whatever the name `data` is bound to
    train, test,    \* the two slices of the shuffled list
    max_charge,     \* the normalization scale
    iter, i,        \* the list the render loop enumerates, and its index
    train_features, train_targets,
    test_features, test_targets,
    images,
    file,           \* the output container on disk
    err,            \* the exception that ended the run
    opts, loaded    \* load_image_h5: its options and what it returned

vars == <<pc, via_cli, mode, projection, noise, num_events, data,
          train, test, max_charge, iter, i, train_features, train_targets,
          test_features, test_targets, images, file, err, opts, loaded>>

(***************************************************************************)
(* Bounds and input pools.                                                 *)
(***************************************************************************)
\* the most events one run of the pipeline reads or generates
MaxEvents == 3
\* the longest target array of a container handed to the loader
MaxTargets == 3

\* RUNS = ['0130', '0210']
RUNS == <<"0130", "0210">>

None == "None"

\* no file at the output path, options not given, nothing returned
NoFile == [absent |-> TRUE]
NoOpts == [given |-> FALSE]
NotLoaded == [returned |-> FALSE]

\* the exceptions that end a run
VectorizeError == "ValueError: cannot call vectorize on size 0 inputs unless otypes is set"
DomainError == "ValueError: math domain error"
ZeroSizeError == "ValueError: zero-size array to reduction operation maximum which has no identity"
ProjectionError == "ValueError: Invalid projection value."
MakedirsError == "FileNotFoundError"

P(q) == [x |-> 10, y |-> 20, z |-> 300, q |-> q]

\* point clouds the event files may hold (event.xyzs(...)); the empty cloud
\* is an event without peaks
Clouds == { <<>>, <<P(1)>>, <<P(0), P(50)>>, <<P(100)>> }

\* what np.empty([1, 4]) may hold: memory that was never written
Uninitialized ==
    { <<[x |-> 0, y |-> 0, z |-> 0, q |-> 0]>>,
      <<[x |-> 7, y |-> 0, z |-> 7, q |-> 50]>>,
      <<[x |-> 0, y |-> 7, z |-> 0, q |-> -7]>> }

NoisePoint == [x |-> -5, y |-> 5, z |-> 5, q |-> 1]

\* projections click's choice refuses; "int:0" and "int:1" are the Python
\* ints 0 and 1
DirectProjections(m) == IF m = "simulated" THEN {"int:0", "int:1"} ELSE {"yz"}

\* clouds the simulated event files may hold
SimClouds == { <<P(100)>> }

BSeq(S, n) == UNION { [1..k -> S] : k \in 0..n }

Range(s) == { s[k] : k \in DOMAIN s }

RECURSIVE Flatten(_)
Flatten(ss) == IF ss = <<>> THEN <<>> ELSE Head(ss) \o Flatten(Tail(ss))

RECURSIVE SeqMax(_)
\* the maximum of a non-empty sequence of integers
SeqMax(s) ==
    IF Len(s) = 1 THEN s[1]
    ELSE LET m == SeqMax(Tail(s)) IN IF s[1] >= m THEN s[1] ELSE m

(***************************************************************************)
(* Charge transform.                                                       *)
(***************************************************************************)
\* math.log10 on the charges of the pools, in thousandths
log10(a) ==
    CASE a = 1 -> 0
      [] a = 50 -> 1699
      [] a = 100 -> 2000

\* math.log10 raises ValueError (math domain error) below zero
LogFails(a) == a < 0

_l(a) == IF a = 0 THEN 0 ELSE log10(a)

\* int(v) on a float: truncation toward zero, in thousandths
Trunc(v) == IF v >= 0 THEN (v \div 1000) * 1000 ELSE 0 - (((0 - v) \div 1000) * 1000)

\* np.vectorize(_l) without otypes refuses a size 0 input; otherwise it calls
\* _l on every element
VectorizeFails(col) == Len(col) = 0 \/ \E k \in DOMAIN col : LogFails(col[k])

VectorizeRaises(col) == IF Len(col) = 0 THEN VectorizeError ELSE DomainError

\* np.vectorize(_l)(col): the output dtype is the type of _l on the first
\* element; _l returns the int 0 for a zero charge, and then every result is
\* cast to int
log(col) ==
    IF col[1] = 0
    THEN [k \in DOMAIN col |-> Trunc(_l(col[k]))]
    ELSE [k \in DOMAIN col |-> _l(col[k])]

Charges(xyzs) == [k \in DOMAIN xyzs |-> xyzs[k].q]

SetCharges(xyzs, col) == [k \in DOMAIN xyzs |-> [xyzs[k] EXCEPT !.q = col[k]]]

\* event[0][:, 3] = log(event[0][:, 3])
LogEvent(event) ==
    [event EXCEPT !.xyzs = SetCharges(event.xyzs, log(Charges(event.xyzs)))]

(***************************************************************************)
(* Entry.                                                                  *)
(***************************************************************************)
Init ==
    /\ pc = "start"
    /\ via_cli = FALSE
    /\ mode = None
    /\ projection = None
    /\ noise = FALSE
    /\ num_events = 0
    /\ data = <<>>
    /\ train = <<>>
    /\ test = <<>>
    /\ max_charge = 0
    /\ iter = <<>>
    /\ i = 0
    /\ train_features = <<>>
    /\ train_targets = <<>>
    /\ test_features = <<>>
    /\ test_targets = <<>>
    /\ images = <<>>
    /\ file = NoFile
    /\ err = None
    /\ opts = NoOpts
    /\ loaded = NotLoaded

(***************************************************************************)
(* main: click has checked type and projection against their choices.      *)
(***************************************************************************)
Main ==
    /\ pc = "start"
    /\ \E type \in {"real", "sim"}, proj \in {"xy", "zy"},
          labeled \in BOOLEAN, nz \in BOOLEAN, n \in 0..MaxEvents :
          /\ mode' = IF type = "real"
                     THEN (IF labeled THEN "real_labeled" ELSE "real_unlabeled")
                     ELSE "simulated"
          /\ projection' = proj
          \* noise and num_events are passed to simulated alone
          /\ noise' = (type = "sim" /\ nz)
          /\ num_events' = IF type = "sim" THEN n ELSE 0
    /\ via_cli' = TRUE
    /\ pc' = "read"
    /\ UNCHANGED <<data, train, test, max_charge, iter, i, train_features,
                   train_targets, test_features, test_targets, images, file,
                   err, opts, loaded>>

\* an entry point called as a function, with a projection main cannot pass
DirectCall ==
    /\ pc = "start"
    /\ \E m \in {"real_labeled", "real_unlabeled", "simulated"},
          nz \in BOOLEAN, n \in 0..MaxEvents :
          /\ mode' = m
          /\ projection' \in DirectProjections(m)
          /\ noise' = (m = "simulated" /\ nz)
          /\ num_events' = IF m = "simulated" THEN n ELSE 0
    /\ via_cli' = FALSE
    /\ pc' = "read"
    /\ UNCHANGED <<data, train, test, max_charge, iter, i, train_features,
                   train_targets, test_features, test_targets, images, file,
                   err, opts, loaded>>

(***************************************************************************)
(* Event Labeler: the three ways of filling `data`.                        *)
(***************************************************************************)
\* one run's events
EventFiles(n) == BSeq([xyzs : Clouds], n)

\* one run's label table: the events its rows with 'p', with 'c' and with 'j'
\* name, each list in the table's order
LabelTables(n) ==
    UNION { UNION { { [p |-> ps, c |-> cs, j |-> js] :
                        js \in EventFiles(n - Len(ps) - Len(cs)) } :
                    cs \in EventFiles(n - Len(ps)) } :
            ps \in EventFiles(n) }

Rows(run) == Len(run.p) + Len(run.c) + Len(run.j)

Labelled(evs, l) == [k \in DOMAIN evs |-> [xyzs |-> evs[k].xyzs, label |-> l]]

\* the three loops over proton_indices, carbon_indices, junk_indices
LabeledRun(run) == Labelled(run.p, 0) \o Labelled(run.c, 1) \o Labelled(run.j, 2)

ReadLabeled ==
    /\ pc = "read" /\ mode = "real_labeled"
    /\ \E r1 \in LabelTables(MaxEvents) :
       \E r2 \in LabelTables(MaxEvents - Rows(r1)) :
          data' = Flatten([r \in DOMAIN RUNS |-> LabeledRun(<<r1, r2>>[r])])
    /\ pc' = "log"
    /\ UNCHANGED <<via_cli, mode, projection, noise, num_events,
                   train, test, max_charge, iter, i, train_features,
                   train_targets, test_features, test_targets, images, file,
                   err, opts, loaded>>

ReadUnlabeled ==
    /\ pc = "read" /\ mode = "real_unlabeled"
    /\ \E r1 \in EventFiles(MaxEvents) :
       \E r2 \in EventFiles(MaxEvents - Len(r1)) :
          data' = Flatten([r \in DOMAIN RUNS |-> Labelled(<<r1, r2>>[r], -1)])
    /\ pc' = "log"
    /\ UNCHANGED <<via_cli, mode, projection, noise, num_events,
                   train, test, max_charge, iter, i, train_features,
                   train_targets, test_features, test_targets, images, file,
                   err, opts, loaded>>

\* dd.add_noise(xyzs): the cloud, with the noise points it adds
add_noise(xyzs) == { xyzs, xyzs \o <<NoisePoint>> }

\* what a loop of simulated appends for the clouds it is given
Appended(clouds, l) ==
    IF noise
    THEN { Labelled([k \in DOMAIN clouds |-> [xyzs |-> c[k]]], l) :
             c \in { c \in [DOMAIN clouds -> UNION { add_noise(x) : x \in Range(clouds) }] :
                       \A k \in DOMAIN clouds : c[k] \in add_noise(clouds[k]) } }
    ELSE { Labelled([k \in DOMAIN clouds |-> [xyzs |-> clouds[k]]], l) }

ReadSimulated ==
    /\ pc = "read" /\ mode = "simulated"
    /\ \E protons \in BSeq(SimClouds, MaxEvents - num_events) :
       \E carbons \in BSeq(SimClouds, MaxEvents - num_events - Len(protons)) :
       \E empties \in [1..num_events -> Uninitialized] :
       \E ps \in Appended(protons, 0), cs \in Appended(carbons, 1),
          js \in Appended(empties, 2) :
          data' = ps \o cs \o js
    /\ pc' = "log"
    /\ UNCHANGED <<via_cli, mode, projection, noise, num_events,
                   train, test, max_charge, iter, i, train_features,
                   train_targets, test_features, test_targets, images, file,
                   err, opts, loaded>>

(***************************************************************************)
(* Charge transform over the whole collection.                             *)
(***************************************************************************)
Failing(evs) == { k \in DOMAIN evs : VectorizeFails(Charges(evs[k].xyzs)) }

Min(S) == CHOOSE m \in S : \A n \in S : m <= n

LogTransform ==
    /\ pc = "log"
    /\ IF Failing(data) = {}
       THEN /\ data' = [k \in DOMAIN data |-> LogEvent(data[k])]
            /\ pc' = "shuffle"
            /\ err' = err
       ELSE \* the loop stops at the first event it cannot transform
            /\ data' = [k \in DOMAIN data |->
                          IF k < Min(Failing(data)) THEN LogEvent(data[k]) ELSE data[k]]
            /\ pc' = "aborted"
            /\ err' = VectorizeRaises(Charges(data[Min(Failing(data))].xyzs))
    /\ UNCHANGED <<via_cli, mode, projection, noise, num_events,
                   train, test, max_charge, iter, i, train_features,
                   train_targets, test_features, test_targets, images, file,
                   opts, loaded>>

(***************************************************************************)
(* Splitter/Shuffler.                                                      *)
(***************************************************************************)
\* s without its k-th element
Without(s, k) == SubSeq(s, 1, k - 1) \o SubSeq(s, k + 1, Len(s))

RECURSIVE shuffle(_)
\* random.shuffle(s): every order of s
shuffle(s) ==
    IF s = <<>> THEN { <<>> }
    ELSE UNION { { <<s[k]>> \o t : t \in shuffle(Without(s, k)) } : k \in DOMAIN s }

\* a split that rounds up: ceil(len(data) * 0.8)
Partition_rounded_up(n) == (n * 8 + 9) \div 10

\* int(len(data) * 0.8)
Partition(n) == (n * 8) \div 10

\* shuffle(data) once in simulated, twice in the real entry points
Shuffled(s) ==
    IF mode = "simulated" THEN shuffle(s) ELSE UNION { shuffle(t) : t \in shuffle(s) }

\* the shuffle, then the two slices
ShuffleSplit ==
    /\ pc = "shuffle" /\ mode \in {"real_labeled", "simulated"}
    /\ \E s2 \in Shuffled(data) :
          /\ data' = s2
          /\ train' = SubSeq(s2, 1, Partition(Len(s2)))
          /\ test' = SubSeq(s2, Partition(Len(s2)) + 1, Len(s2))
    /\ pc' = "normalize"
    /\ UNCHANGED <<via_cli, mode, projection, noise, num_events,
                   max_charge, iter, i, train_features, train_targets,
                   test_features, test_targets, images, file, err, opts, loaded>>

\* real_unlabeled shuffles twice and does not split
ShuffleAll ==
    /\ pc = "shuffle" /\ mode = "real_unlabeled"
    /\ \E s2 \in Shuffled(data) : data' = s2
    /\ pc' = "normalize"
    /\ UNCHANGED <<via_cli, mode, projection, noise, num_events,
                   train, test, max_charge, iter, i, train_features,
                   train_targets, test_features, test_targets, images, file,
                   err, opts, loaded>>

(***************************************************************************)
(* Dataset Normalizer.                                                     *)
(***************************************************************************)
\* a division that answers 0 where numpy answers nan or an infinity
Divide_zero_guard(a, m) ==
    IF m = 0 THEN [k |-> "fin", n |-> 0, d |-> 1]
    ELSE IF m > 0 THEN [k |-> "fin", n |-> a, d |-> m]
    ELSE [k |-> "fin", n |-> 0 - a, d |-> 0 - m]

\* a / m on numpy floats: division by zero gives nan or an infinity (and a
\* RuntimeWarning), never an exception
Divide(a, m) ==
    IF m = 0
    THEN [k |-> IF a = 0 THEN "nan" ELSE IF a > 0 THEN "inf" ELSE "-inf", n |-> 0, d |-> 0]
    ELSE IF m > 0 THEN [k |-> "fin", n |-> a, d |-> m]
    ELSE [k |-> "fin", n |-> 0 - a, d |-> 0 - m]

\* ndarray.max() raises ValueError on a zero-size array
MaxFails(part) == part = <<>> \/ \E k \in DOMAIN part : part[k].xyzs = <<>>

\* np.array(list(map(lambda x: x[0][:, 3].max(), part))).max()
MaxCharge(part) == SeqMax([k \in DOMAIN part |-> SeqMax(Charges(part[k].xyzs))])

\* for e in part: for point in e[0]: point[3] = point[3] / max_charge
Normalized(part, m) ==
    [k \in DOMAIN part |->
        [part[k] EXCEPT !.xyzs =
            [j \in DOMAIN part[k].xyzs |->
                [part[k].xyzs[j] EXCEPT !.q = Divide(part[k].xyzs[j].q, m)]]]]

\* np.empty((n, 128, 128, 3), dtype=np.uint8): n slots nothing was stored in
EmptyImages(n) == [k \in 1..n |-> [canvas |-> <<128, 128, 3>>, stored |-> FALSE]]

\* np.empty((n,), dtype=np.uint8)
EmptyTargets(n) == [k \in 1..n |-> 0]

\* a scale computed from the whole shuffled list
ScalePart_whole == data

\* the part the scale is computed from
ScalePart == IF mode = "real_unlabeled" THEN data ELSE train

Normalize ==
    /\ pc = "normalize"
    /\ IF MaxFails(ScalePart)
       THEN /\ pc' = "aborted"
            /\ err' = ZeroSizeError
            /\ UNCHANGED <<data, train, test, max_charge, iter, i,
                           train_features, train_targets, images>>
       ELSE LET m == MaxCharge(ScalePart) IN
            /\ max_charge' = m
            /\ err' = err
            /\ IF mode = "real_unlabeled"
               THEN /\ data' = Normalized(data, m)
                    /\ UNCHANGED <<train, test>>
                    /\ images' = EmptyImages(Len(data))
                    /\ UNCHANGED <<train_features, train_targets>>
                    /\ iter' = data'
                    /\ pc' = "render"
               ELSE /\ train' = Normalized(train, m)
                    /\ test' = Normalized(test, m)
                    \* the slices hold the very events of data
                    /\ data' = train' \o test'
                    /\ train_features' = EmptyImages(Len(train))
                    /\ train_targets' = EmptyTargets(Len(train))
                    /\ images' = images
                    /\ iter' = train'
                    /\ pc' = "render_train"
            /\ i' = 0
    /\ UNCHANGED <<via_cli, mode, projection, noise, num_events,
                   test_features, test_targets, file, opts, loaded>>

(***************************************************************************)
(* Projection Renderer.                                                    *)
(***************************************************************************)
\* the first branch of the if chain: 'zy' in the real entry points, the int 1
\* in simulated
IsZY == IF mode = "simulated" THEN projection = "int:1" ELSE projection = "zy"

\* a chain whose second branch takes every other selector
IsXY_catch_all == ~IsZY

\* the second branch: 'xy', or the int 0 in simulated
IsXY == IF mode = "simulated" THEN projection = "int:0" ELSE projection = "xy"

\* the figure of one event: a 128 x 128 canvas, alpha dropped, the limits of
\* the axes, and one marker (horizontal, vertical, colour) per point
Render(e) ==
    [canvas |-> <<128, 128, 3>>,
     stored |-> TRUE,
     xlim |-> IF IsZY THEN <<0, 1250>> ELSE <<-275, 275>>,
     ylim |-> <<-275, 275>>,
     marks |-> [k \in DOMAIN e |->
                  <<IF IsZY THEN e[k].z ELSE e[k].x, e[k].y, e[k].q>>]]

\* a label stored into a uint8 array
U8(l) == l % 256

\* results stored from the back of the array
Store_reversed(arr, k, v) == [arr EXCEPT ![Len(arr) - k] = v]

\* arr[k] = v, k counted from 0
Store(arr, k, v) == [arr EXCEPT ![k + 1] = v]

RenderTrain ==
    /\ pc = "render_train" /\ i < Len(iter)
    /\ IF IsZY \/ IsXY
       THEN /\ data' = Render(iter[i + 1].xyzs)
            /\ train_features' = Store(train_features, i, data')
            /\ train_targets' = Store(train_targets, i, U8(iter[i + 1].label))
            /\ i' = i + 1
            /\ UNCHANGED <<pc, err>>
       ELSE /\ pc' = "aborted"
            /\ err' = ProjectionError
            /\ UNCHANGED <<data, train_features, train_targets, i>>
    /\ UNCHANGED <<via_cli, mode, projection, noise, num_events,
                   train, test, max_charge, iter, test_features, test_targets,
                   images, file, opts, loaded>>

\* the train loop is over: the test arrays, and the loop over test
BeginTest ==
    /\ pc = "render_train" /\ i = Len(iter)
    /\ test_features' = EmptyImages(Len(test))
    /\ test_targets' = EmptyTargets(Len(test))
    /\ iter' = test
    /\ i' = 0
    /\ pc' = "render_test"
    /\ UNCHANGED <<via_cli, mode, projection, noise, num_events,
                   data, train, test, max_charge, train_features,
                   train_targets, images, file, err, opts, loaded>>

RenderTest ==
    /\ pc = "render_test" /\ i < Len(iter)
    /\ IF IsZY \/ IsXY
       THEN /\ data' = Render(iter[i + 1].xyzs)
            /\ test_features' = Store(test_features, i, data')
            /\ test_targets' = Store(test_targets, i, U8(iter[i + 1].label))
            /\ i' = i + 1
            /\ UNCHANGED <<pc, err>>
       ELSE /\ pc' = "aborted"
            /\ err' = ProjectionError
            /\ UNCHANGED <<data, test_features, test_targets, i>>
    /\ UNCHANGED <<via_cli, mode, projection, noise, num_events,
                   train, test, max_charge, iter, train_features,
                   train_targets, images, file, opts, loaded>>

\* real_unlabeled's one loop, over the list `data` was bound to
RenderImages ==
    /\ pc = "render" /\ i < Len(iter)
    /\ IF IsZY \/ IsXY
       THEN /\ data' = Render(iter[i + 1].xyzs)
            /\ images' = Store(images, i, data')
            /\ i' = i + 1
            /\ UNCHANGED <<pc, err>>
       ELSE /\ pc' = "aborted"
            /\ err' = ProjectionError
            /\ UNCHANGED <<data, images, i>>
    /\ UNCHANGED <<via_cli, mode, projection, noise, num_events,
                   train, test, max_charge, iter, train_features,
                   train_targets, test_features, test_targets, file, opts,
                   loaded>>

\* the last loop is over
EndRender ==
    /\ pc \in {"render_test", "render"} /\ i = Len(iter)
    /\ pc' = "save"
    /\ UNCHANGED <<via_cli, mode, projection, noise, num_events,
                   data, train, test, max_charge, iter, i, train_features,
                   train_targets, test_features, test_targets, images, file,
                   err, opts, loaded>>

(***************************************************************************)
(* Dataset Writer.                                                         *)
(***************************************************************************)
\* a file written without the test targets' data
Container_short ==
    IF mode = "real_unlabeled"
    THEN [images |-> <<>>, max_charge |-> <<max_charge>>]
    ELSE [train_features |-> train_features, train_targets |-> train_targets,
          test_features |-> test_features, test_targets |-> <<>>,
          max_charge |-> <<max_charge>>]

\* the datasets the entry point creates in the file it opens with 'w'
Container ==
    IF mode = "real_unlabeled"
    THEN [images |-> images, max_charge |-> <<max_charge>>]
    ELSE [train_features |-> train_features, train_targets |-> train_targets,
          test_features |-> test_features, test_targets |-> test_targets,
          max_charge |-> <<max_charge>>]

\* save_path is read here for the first time.  os.makedirs(save_path) raises
\* when the directory cannot be made (it always does for '', click's default:
\* os.path.exists('') is False and os.makedirs('') is a FileNotFoundError);
\* otherwise the file is opened with 'w', filled and closed
Save ==
    /\ pc = "save"
    /\ \E makedirs_fails \in BOOLEAN :
          IF makedirs_fails
          THEN /\ pc' = "aborted"
               /\ err' = MakedirsError
               /\ file' = file
          ELSE /\ file' = Container
               /\ pc' = "done"
               /\ err' = err
    /\ UNCHANGED <<via_cli, mode, projection, noise, num_events,
                   data, train, test, max_charge, iter, i, train_features,
                   train_targets, test_features, test_targets, images, opts,
                   loaded>>

Next ==
    \/ Main
    \/ DirectCall
    \/ ReadLabeled
    \/ ReadUnlabeled
    \/ ReadSimulated
    \/ LogTransform
    \/ ShuffleSplit
    \/ ShuffleAll
    \/ Normalize
    \/ RenderTrain
    \/ BeginTest
    \/ RenderTest
    \/ RenderImages
    \/ EndRender
    \/ Save

Spec == Init /\ [][Next]_vars

(***************************************************************************)
(* Dataset Loader: load_image_h5 on a container of the output schema.      *)
(***************************************************************************)
\* an image as a container stores it
Picture ==
    [canvas |-> <<128, 128, 3>>, stored |-> TRUE, xlim |-> <<-275, 275>>,
     ylim |-> <<-275, 275>>, marks |-> <<>>]

\* the targets a labeled container may hold: uint8 labels of the three classes
TargetArrays == UNION { [1..n -> 0..2] : n \in 1..MaxTargets }

Containers ==
    { [train_features |-> [k \in DOMAIN tr |-> Picture], train_targets |-> tr,
       test_features |-> [k \in DOMAIN te |-> Picture], test_targets |-> te,
       max_charge |-> <<2000>>] : tr \in TargetArrays, te \in TargetArrays }
    \cup { [images |-> <<Picture>>, max_charge |-> <<2000>>] }

InitLoad ==
    /\ pc = "load"
    /\ via_cli = FALSE
    /\ mode = None
    /\ projection = None
    /\ noise = FALSE
    /\ num_events = 0
    /\ data = <<>>
    /\ train = <<>>
    /\ test = <<>>
    /\ max_charge = 0
    /\ iter = <<>>
    /\ i = 0
    /\ train_features = <<>>
    /\ train_targets = <<>>
    /\ test_features = <<>>
    /\ test_targets = <<>>
    /\ images = <<>>
    /\ file \in Containers
    /\ err = None
    /\ opts = NoOpts
    /\ loaded = NotLoaded

\* np.unique(train_targets).shape[0]
NumCategories(targets) == Cardinality(Range(targets))

\* the loops of the binary branch: every non-zero label becomes 1
Binary(targets) == [k \in DOMAIN targets |-> IF targets[k] # 0 THEN 1 ELSE targets[k]]

\* to_categorical(y, n) writes categorical[row, y[row]] = 1 into an n-column
\* array of zeros: an IndexError when a label is not below n
CategoricalFails(y, n) == \E k \in DOMAIN y : y[k] >= n

to_categorical(y, n) ==
    [k \in DOMAIN y |-> [c \in 1..n |-> IF c = y[k] + 1 THEN 1 ELSE 0]]

\* np.reshape(features, (len(features), -1))
Flat(features) ==
    [k \in DOMAIN features |-> [features[k] EXCEPT !.canvas = <<128 * 128 * 3>>]]

Load(h5, categorical, flatten, want_max_charge, binary) ==
    IF "images" \in DOMAIN h5
    THEN [returned |-> TRUE, raised |-> None, value |-> h5.images]
    ELSE LET n == IF binary THEN 2 ELSE NumCategories(h5.train_targets)
             tt == IF binary THEN Binary(h5.train_targets) ELSE h5.train_targets
             te == IF binary THEN Binary(h5.test_targets) ELSE h5.test_targets
             tf == IF flatten THEN Flat(h5.train_features) ELSE h5.train_features
             ef == IF flatten THEN Flat(h5.test_features) ELSE h5.test_features
         IN  IF categorical /\ (CategoricalFails(tt, n) \/ CategoricalFails(te, n))
             THEN [returned |-> FALSE, raised |-> "IndexError"]
             ELSE LET ty == IF categorical THEN to_categorical(tt, n) ELSE tt
                      ey == IF categorical THEN to_categorical(te, n) ELSE te
                  IN  [returned |-> TRUE, raised |-> None,
                       value |-> IF want_max_charge
                                 THEN <<<<tf, ty>>, <<ef, ey>>, h5.max_charge[1]>>
                                 ELSE <<<<tf, ty>>, <<ef, ey>>>>]

load_image_h5 ==
    /\ pc = "load"
    /\ \E categorical, flatten, want_max_charge, binary \in BOOLEAN :
          /\ opts' = [given |-> TRUE, categorical |-> categorical, flatten |-> flatten,
                      max_charge |-> want_max_charge, binary |-> binary]
          /\ loaded' = Load(file, categorical, flatten, want_max_charge, binary)
    /\ pc' = "loaded"
    /\ UNCHANGED <<via_cli, mode, projection, noise, num_events, data, train,
                   test, max_charge, iter, i, train_features, train_targets,
                   test_features, test_targets, images, file, err>>

NextLoad == load_image_h5

SpecLoad == InitLoad /\ [][NextLoad]_vars

(***************************************************************************)
(* Properties.                                                             *)
(***************************************************************************)
Count(s, e) == Cardinality({ k \in DOMAIN s : s[k] = e })

SameBag(s, t) ==
    /\ Len(s) = Len(t)
    /\ \A k \in DOMAIN s : Count(s, s[k]) = Count(t, s[k])

PastTransform ==
    {"shuffle", "normalize", "render_train", "render_test", "render", "save", "done"}

PastNormalize == {"render_train", "render_test", "render", "save", "done"}

NonFinite == {"nan", "inf", "-inf"}

\* the points of a list of events, as pairs <<event, point>> of indexes
PointsOf(part) ==
    UNION { { <<k, j>> : j \in DOMAIN part[k].xyzs } : k \in DOMAIN part }

\* C1: in real_labeled and simulated, the shuffle and split of N events
\* leaves floor(0.8 * N) events in train and the other N - len(train) in
\* test, and train followed by test holds the events of the input, each as
\* often as the input does.
C1_SplitIsAPermutation ==
    [][ (pc = "shuffle" /\ mode \in {"real_labeled", "simulated"}) =>
          /\ 10 * Len(train') <= 8 * Len(data)
          /\ 8 * Len(data) < 10 * (Len(train') + 1)
          /\ Len(test') = Len(data) - Len(train')
          /\ SameBag(train' \o test', data) ]_vars

\* a split of three events, two of them different, into two and one
C1_Witness ==
    /\ pc = "normalize" /\ mode = "real_labeled"
    /\ Len(train) = 2 /\ Len(test) = 1
    /\ train[1] # train[2]

Accepted ==
    IF mode = "simulated" THEN projection \in {"int:1", "int:0"}
    ELSE projection \in {"zy", "xy"}

NothingStored ==
    /\ \A k \in DOMAIN train_features : ~train_features[k].stored
    /\ \A k \in DOMAIN test_features : ~test_features[k].stored
    /\ \A k \in DOMAIN images : ~images[k].stored

\* C3 as stated: with a projection that is neither 'xy' nor 'zy' the entry
\* point raises before any event is log-transformed, shuffled, normalized or
\* rendered, and writes no file.
C3_RaisedBeforeProcessing ==
    (mode # None /\ projection \notin {"xy", "zy"}) =>
        pc \notin PastTransform /\ file = NoFile

\* C3, amended: the selector is checked in the render loop only.  With a
\* selector the loop does not take, the ValueError is raised at the first
\* event of the first render loop, when every event has been log-transformed,
\* shuffled and normalized; no image is stored and no file is written.
C3_RaisedAtFirstRender ==
    [][ /\ (err = None /\ err' = ProjectionError) =>
              /\ ~Accepted
              /\ pc \in {"render_train", "render"} /\ i = 0 /\ Len(iter) > 0
              /\ \A p \in PointsOf(iter) :
                    iter[p[1]].xyzs[p[2]].q.k \in NonFinite \cup {"fin"}
              /\ NothingStored' /\ file' = NoFile /\ pc' = "aborted"
        /\ (mode' # None /\ ~Accepted') =>
              /\ pc' \notin {"render_test", "save", "done"}
              /\ NothingStored' /\ file' = NoFile
              /\ (pc \in {"render_train", "render"} => err' = ProjectionError) ]_vars

\* real_labeled called with 'yz': the error comes after the normalization
C3_Witness ==
    /\ pc = "aborted" /\ err = ProjectionError
    /\ mode = "real_labeled" /\ projection = "yz"
    /\ Len(train) = 2 /\ Len(test) = 1
    /\ \E p \in PointsOf(train) : train[p[1]].xyzs[p[2]].q.k = "fin"

\* the markers the projection asks for: (x, y) for 'xy', (z, y) for 'zy'
MarksOf(e) ==
    [k \in DOMAIN e |-> <<IF projection = "zy" THEN e[k].z ELSE e[k].x, e[k].y, e[k].q>>]

\* C4: started from the CLI, with 'xy' or 'zy', every one of the three modes
\* renders every event without a configuration error, 'xy' from (x, y) and
\* 'zy' from (z, y), and ends by writing the container.
C4_CliProjectionsRender ==
    (via_cli /\ projection \in {"xy", "zy"}) =>
        /\ err # ProjectionError
        /\ \A k \in DOMAIN train_features :
              train_features[k].stored => train_features[k].marks = MarksOf(train[k].xyzs)

\* C5 as stated: a scale of 0 makes the normalization fail, so no run gets
\* past it with max_charge = 0.
C5_ZeroScaleAborts ==
    pc \in PastNormalize => max_charge # 0

\* the scale is computed and is 0
ZeroScale ==
    LET part == IF mode = "real_unlabeled" THEN data ELSE train
    IN  /\ part # <<>>
        /\ \A k \in DOMAIN part : part[k].xyzs # <<>>
        /\ \A p \in PointsOf(part) : part[p[1]].xyzs[p[2]].q <= 0
        /\ \E p \in PointsOf(part) : part[p[1]].xyzs[p[2]].q = 0

\* C5, amended: a scale of 0 raises nothing.  The division gives nan for 0/0
\* and an infinity otherwise, max_charge is 0, and the run goes on to render.
C5_ZeroScaleGivesNonFinite ==
    [][ (pc = "normalize" /\ ZeroScale) =>
          /\ pc' \in {"render_train", "render"} /\ err' = None
          /\ max_charge' = 0
          /\ \A p \in PointsOf(data') : data'[p[1]].xyzs[p[2]].q.k \in NonFinite
          /\ \A p \in PointsOf(data) :
                (data[p[1]].xyzs[p[2]].q = 0) = (data'[p[1]].xyzs[p[2]].q.k = "nan") ]_vars

\* a container written with max_charge = 0
C5_Witness ==
    /\ pc = "done" /\ mode = "real_labeled"
    /\ file.max_charge = <<0>>
    /\ Len(file.train_features) = 2

\* C6: an event with no point is rendered to a blank canvas and is never the
\* cause of an error, as long as the train partition is sure to hold an event
\* with a charge above 1.
C6_EmptyEventRenders ==
    ~ /\ pc = "aborted"
      /\ err = VectorizeError
      /\ Cardinality({ k \in DOMAIN data : \E j \in DOMAIN data[k].xyzs : data[k].xyzs[j].q > 1 })
             > Len(data) - Partition(Len(data))

\* the labeled targets of a container, and whether the loader was asked for
\* one-hot targets of all classes
AskedCategorical ==
    /\ pc = "loaded" /\ "train_targets" \in DOMAIN file
    /\ opts.categorical /\ ~opts.binary

OneHot(l, n) == [c \in 1..n |-> IF c = l + 1 THEN 1 ELSE 0]

\* C7: with categorical = True every stored label l comes back as the vector
\* of length num_categories (the number of distinct train labels) with a 1
\* at index l and 0 elsewhere, whatever labels the container holds.
C7_OneHotForEveryContainer ==
    AskedCategorical =>
        LET n == Cardinality(Range(file.train_targets))
        IN  /\ loaded.returned
            /\ \A k \in DOMAIN file.train_targets :
                  /\ Len(loaded.value[1][2][k]) = n
                  /\ \E c \in 1..n : c = file.train_targets[k] + 1
                  /\ loaded.value[1][2][k] = OneHot(file.train_targets[k], n)
            /\ \A k \in DOMAIN file.test_targets :
                  /\ \E c \in 1..n : c = file.test_targets[k] + 1
                  /\ loaded.value[2][2][k] = OneHot(file.test_targets[k], n)

AllStored(features) == \A k \in DOMAIN features : features[k].stored

JunkEvents == SelectSeq(data, LAMBDA e : e.label = 2)

\* C9: simulated appends exactly num_events junk events, each one point
\* with coordinates and charge all zero and the label 2; with noise off the
\* placeholder then goes through the log transform without an error.
C9_JunkIsAllZero ==
    (mode = "simulated" /\ ~noise) =>
        /\ pc = "log" =>
              /\ Len(JunkEvents) = num_events
              /\ \A k \in DOMAIN JunkEvents :
                    JunkEvents[k].xyzs = <<[x |-> 0, y |-> 0, z |-> 0, q |-> 0]>>
        /\ err # DomainError

\* C10: features and targets stay aligned with the shuffled partition: slot
\* k of train_features is the image of the k-th train event and slot k of
\* train_targets its label, and the same for test, though the loop rebinds
\* `data` to each image.
C10_ImagesAlignedWithLabels ==
    /\ (pc \in {"render_train", "render_test", "save", "done"}) =>
          \A k \in 1..(IF pc = "render_train" THEN i ELSE Len(train)) :
              /\ train_features[k] = Render(train[k].xyzs)
              /\ train_targets[k] = train[k].label
    /\ (pc \in {"render_test", "save", "done"} /\ mode # "real_unlabeled") =>
          \A k \in 1..(IF pc = "render_test" THEN i ELSE Len(test)) :
              /\ test_features[k] = Render(test[k].xyzs)
              /\ test_targets[k] = test[k].label

\* two train events of different clouds and labels, both rendered, and
\* `data` bound to an image
C10_Witness ==
    /\ pc = "save" /\ mode = "real_labeled"
    /\ Len(train) = 2
    /\ train[1].xyzs # train[2].xyzs /\ train[1].label # train[2].label
    /\ train_features[1] # train_features[2]
    /\ data = test_features[Len(test)]

====
